---- MODULE Spec2Model ----
(***************************************************************************)
(* Model of mongo/db/catalog/drop_indexes.cpp: dropIndexes() (the write-   *)
(* conflict retry loop, the replication gate, the unit of work),           *)
(* wrappedRun() (selector resolution and removal) and stopIndexBuilds().   *)
(* One namespace, accessed by the operation contexts in Procs.  The index  *)
(* catalog, the index-build registry, the lock manager, the unit of work   *)
(* and the op observer are collaborators whose code lives outside this     *)
(* file; they are modelled from their documented contracts.                *)
(***************************************************************************)
EXTENDS Integers, Sequences, FiniteSets, TLC

\* Bounds of the model.
MaxSecondary == 2      \* secondary indexes the namespace may have at the start
MaxConflicts == 1      \* WriteConflictExceptions the storage engine may throw

Procs == {1, 2}

---------------------------------------------------------------------------
\* Index descriptors and the catalogs the namespace can start with.

IdIndex == [name |-> "_id_", key |-> "_id", isIdIndex |-> TRUE]

\* Secondary indexes in creation order; a_1 and a_2 share a key pattern.
SecondaryPool ==
    << [name |-> "a_1", key |-> "a", isIdIndex |-> FALSE],
       [name |-> "a_2", key |-> "a", isIdIndex |-> FALSE],
       [name |-> "b_1", key |-> "b", isIdIndex |-> FALSE],
       [name |-> "b_2", key |-> "b", isIdIndex |-> FALSE],
       [name |-> "c_1", key |-> "c", isIdIndex |-> FALSE] >>

Secondaries == SubSeq(SecondaryPool, 1, MaxSecondary)

SecondaryNames == {Secondaries[i].name : i \in 1..Len(Secondaries)}

\* The catalog holding the _id index and the secondaries named in S.
CatalogOf(S) == <<IdIndex>> \o SelectSeq(Secondaries, LAMBDA d : d.name \in S)

\* The specs of the index builds in progress for the secondaries named in S.
BuildsOf(S) ==
    {[name |-> Secondaries[i].name, key |-> Secondaries[i].key] :
        i \in {j \in 1..Len(Secondaries) : Secondaries[j].name \in S}}

\* The "index" field of the command object: a BSON element type and value.
\* EOO is the absent field, NumberInt a field that is neither name nor key.
SelectorList ==
    << [type |-> "String", val |-> "*"],
       [type |-> "String", val |-> "_id_"],
       [type |-> "String", val |-> "a_1"],
       [type |-> "Object", val |-> "_id"],
       [type |-> "Object", val |-> "a"],
       [type |-> "EOO", val |-> ""],
       [type |-> "NumberInt", val |-> "1"] >>

Wildcard == [type |-> "String", val |-> "*"]

DropMessage == "non-_id indexes dropped for collection"

NoWunit == [state |-> "none", catalog |-> <<>>, oplog |-> <<>>]

NoSnapshot ==
    [catalog |-> <<>>, inProg |-> {}, oplog |-> <<>>, canAccept |-> "unset",
     canAcceptWas |-> "unset", reportLen |-> 0]

---------------------------------------------------------------------------
VARIABLES
    nsState,          \* "present", "noCollection" or "noDb"
    catalog,          \* the collection's IndexCatalog: descriptors in creation order
    inProg,           \* specs of the index builds in progress on the namespace
    oplog,            \* entries appended by the op observer
    canAcceptWrites,  \* ReplicationCoordinator::canAcceptWritesForDatabase(dbName)
    conflicts,        \* write conflicts thrown so far
    dbLock,           \* mode in which each operation holds the database lock
    pc,               \* position of each operation context in dropIndexes
    sel,              \* idxDescriptor's "index" element
    replicated,       \* txn->writesAreReplicated()
    attempts,         \* iterations of the retry loop started
    retries,          \* wcr__Attempts: conflicts caught by the loop
    wunit,            \* the attempt's WriteUnitOfWork and what it restores
    desc,             \* position in the catalog of the descriptor found, 0 for NULL
    report,           \* fields appended to the caller's BSONObjBuilder
    status,           \* what dropIndexes returned, "running" before that
    did,              \* steps the current (or last) attempt has performed
    atLock,           \* what the current (or last) attempt saw when it took the lock
    atEnd,            \* catalog, builds and log when the last attempt left its scope
    catalog0          \* the catalog before any invocation

vars == <<nsState, catalog, inProg, oplog, canAcceptWrites, conflicts,
          dbLock, pc, sel, replicated, attempts, retries, wunit, desc, report,
          status, did, atLock, atEnd, catalog0>>

envVars == <<nsState, canAcceptWrites, catalog0>>

---------------------------------------------------------------------------
\* Collaborators (index catalog, build registry, lock manager), from their contracts.

\* IndexCatalog::findIndexByName: position of the descriptor named n, 0 if none.
FindIndexByName(cat, n) ==
    LET hits == {i \in 1..Len(cat) : cat[i].name = n}
    IN  IF hits = {} THEN 0 ELSE CHOOSE i \in hits : \A j \in hits : i <= j

\* IndexCatalog::findIndexByKeyPattern: the first descriptor with key pattern k.
FindIndexByKeyPattern(cat, k) ==
    LET hits == {i \in 1..Len(cat) : cat[i].key = k}
    IN  IF hits = {} THEN 0 ELSE CHOOSE i \in hits : \A j \in hits : i <= j

\* IndexCatalog::dropIndex: the catalog without the descriptor at position i.
DropIndex(cat, i) == SubSeq(cat, 1, i - 1) \o SubSeq(cat, i + 1, Len(cat))

\* IndexCatalog::dropAllIndexes(txn, includingIdIndex).
DropAllIndexes(cat, includingIdIndex) ==
    IF includingIdIndex THEN <<>> ELSE SelectSeq(cat, LAMBDA d : d.isIdIndex)

\* IndexCatalog::numIndexesTotal.
NumIndexesTotal(cat) == Len(cat)

\* IndexBuilder::killMatchingIndexBuilds: the builds that survive the criteria.
\* An unset criterion ("") matches every build.
KillMatchingIndexBuilds(builds, criteria) ==
    {b \in builds : ~ ( /\ (criteria.name = "" \/ criteria.name = b.name)
                        /\ (criteria.key = "" \/ criteria.key = b.key) )}

\* Lock manager: a MODE_X request waits for every other holder, a MODE_IX
\* request for the holders of MODE_X.
Grantable(p, mode) ==
    \A q \in Procs \ {p} :
        IF mode = "X" THEN dbLock[q] = "none" ELSE dbLock[q] # "X"

---------------------------------------------------------------------------
\* Fault seeded in stopIndexBuilds: an element that is neither a string nor an
\* object falls through to a kill with empty criteria.
StopIndexBuilds_KillsByDefault(builds, toDrop) ==
    IF toDrop.type = "String" /\ toDrop.val # "*"
    THEN KillMatchingIndexBuilds(builds, [name |-> toDrop.val, key |-> ""])
    ELSE IF toDrop.type = "Object"
         THEN KillMatchingIndexBuilds(builds, [name |-> "", key |-> toDrop.val])
         ELSE KillMatchingIndexBuilds(builds, [name |-> "", key |-> ""])

\* stopIndexBuilds: the kill criteria derived from the "index" element, applied
\* to the builds in progress.  Any other element type kills nothing.
StopIndexBuilds(builds, toDrop) ==
    IF toDrop.type = "String"
    THEN IF toDrop.val = "*"
         THEN KillMatchingIndexBuilds(builds, [name |-> "", key |-> ""])
         ELSE KillMatchingIndexBuilds(builds, [name |-> toDrop.val, key |-> ""])
    ELSE IF toDrop.type = "Object"
         THEN KillMatchingIndexBuilds(builds, [name |-> "", key |-> toDrop.val])
         ELSE builds

\* BSONObj::getField: the value of the first field named f, as a set (empty if absent).
GetField(obj, f) ==
    LET hits == {i \in 1..Len(obj) : obj[i].f = f}
    IN  IF hits = {} THEN {} ELSE {obj[CHOOSE i \in hits : \A j \in hits : i <= j].v}

Step(p, name) == did' = [did EXCEPT ![p] = Append(@, name)]

\* Scope exit of one loop iteration: ~WriteUnitOfWork rolls back what the attempt
\* wrote unless it was committed, then ~AutoGetDb and ~ScopedTransaction release
\* the locks.
Unwind(p) ==
    /\ catalog' = IF wunit[p].state = "active" THEN wunit[p].catalog ELSE catalog
    /\ oplog' = IF wunit[p].state = "active" THEN wunit[p].oplog ELSE oplog
    /\ wunit' = [wunit EXCEPT ![p] = NoWunit]
    /\ dbLock' = [dbLock EXCEPT ![p] = "none"]
    /\ atEnd' = [atEnd EXCEPT ![p] =
                   [catalog |-> catalog', inProg |-> inProg, oplog |-> oplog']]

\* Fault seeded in ReturnStatus: the return leaves the database lock held.
ReturnStatus_KeepsLock(p, s) ==
    /\ catalog' = IF wunit[p].state = "active" THEN wunit[p].catalog ELSE catalog
    /\ oplog' = IF wunit[p].state = "active" THEN wunit[p].oplog ELSE oplog
    /\ wunit' = [wunit EXCEPT ![p] = NoWunit]
    /\ atEnd' = [atEnd EXCEPT ![p] =
                   [catalog |-> catalog', inProg |-> inProg, oplog |-> oplog']]
    /\ status' = [status EXCEPT ![p] = s]
    /\ pc' = [pc EXCEPT ![p] = "done"]
    /\ UNCHANGED <<dbLock, retries, conflicts>>

\* Fault seeded in ReturnStatus: the loop goes round again instead of returning.
ReturnStatus_Retry(p, s) ==
    /\ Unwind(p)
    /\ pc' = [pc EXCEPT ![p] = "begin"]
    /\ UNCHANGED <<status, retries, conflicts>>

\* "return Status(...)" and "return status" from inside the loop body: the
\* iteration's scope exits and the caller gets s.
ReturnStatus(p, s) ==
    /\ Unwind(p)
    /\ status' = [status EXCEPT ![p] = s]
    /\ pc' = [pc EXCEPT ![p] = "done"]
    /\ UNCHANGED <<retries, conflicts>>

\* A WriteConflictException thrown inside the loop body: the scope exits, the
\* catch block of MONGO_WRITE_CONFLICT_RETRY_LOOP_END counts it and continues.
ThrowWriteConflict(p) ==
    /\ conflicts < MaxConflicts
    /\ Unwind(p)
    /\ conflicts' = conflicts + 1
    /\ retries' = [retries EXCEPT ![p] = @ + 1]
    /\ pc' = [pc EXCEPT ![p] = "begin"]
    /\ UNCHANGED status

\* Any other exception leaves dropIndexes: the scope exits and the caller sees it.
ThrowException(p, what) ==
    /\ Unwind(p)
    /\ status' = [status EXCEPT ![p] = what]
    /\ pc' = [pc EXCEPT ![p] = "done"]
    /\ UNCHANGED <<retries, conflicts>>

---------------------------------------------------------------------------
\* The pieces of dropIndexes and wrappedRun the actions are built from.

\* Fault seeded in DbLockMode: the database lock is taken in intent mode.
DbLockMode_IX == "IX"

\* AutoGetDb autoDb(txn, dbName, MODE_X).
DbLockMode == "X"

\* Fault seeded in the gate: the negation of canAcceptWritesForDatabase is lost.
UserInitiatedWritesAndNotPrimary_Inverted(p) == replicated[p] /\ canAcceptWrites

\* Fault seeded in the gate: canAcceptWritesForDatabase is asked once, before the
\* retry loop, and a retry reuses the answer of the attempt before it.
UserInitiatedWritesAndNotPrimary_Cached(p) ==
    replicated[p] /\ IF atLock[p].canAcceptWas = "unset"
                     THEN ~canAcceptWrites
                     ELSE atLock[p].canAcceptWas = "no"

\* Fault seeded in the gate: writesAreReplicated() is not consulted.
UserInitiatedWritesAndNotPrimary_Unconditional(p) == ~canAcceptWrites

\* txn->writesAreReplicated() && !canAcceptWritesForDatabase(dbName).
UserInitiatedWritesAndNotPrimary(p) == replicated[p] /\ ~canAcceptWrites

\* Fault seeded in the short circuit: only the database is tested.
NamespaceMissing_DbOnly == nsState = "noDb"

\* !db || !collection.
NamespaceMissing == nsState # "present"

\* Fault seeded in the wildcard path: dropAllIndexes(txn, true).
IncludingIdIndex_True == TRUE

\* The second argument of dropAllIndexes(txn, false).
IncludingIdIndex == FALSE

\* The code returned when findIndexByName gives NULL.
NameNotFound == "IndexNotFound"

\* Fault seeded in the key-pattern path: the code of the name path is returned.
KeyNotFound_IndexNotFound == "IndexNotFound"

\* The code returned when findIndexByKeyPattern gives NULL.
KeyNotFound == "InvalidOptions"

\* Fault seeded in the refusal: the isIdIndex test is missing.
CannotDrop_Never(cat, d) == FALSE

\* desc->isIdIndex(): the descriptor found is refused.
CannotDrop(cat, d) == cat[d].isIdIndex

\* Fault seeded in the removal: the newest descriptor is dropped, not the one found.
DropTarget_Last(p) == Len(catalog)

\* Fault seeded in the removal: the descriptor before the one found is dropped.
DropTarget_Previous(p) == desc[p] - 1

\* Fault seeded in the loop body: no unit of work is opened around wrappedRun.
WriteUnitOfWork_Missing == "none"

\* WriteUnitOfWork wunit(txn), declared inside the loop body: the state of the
\* unit of work the executor runs in.
WriteUnitOfWork == "active"

\* The descriptor handed to dropIndex(txn, desc).
DropTarget(p) == desc[p]

\* Fault seeded in the driver: the unit of work is committed before the log append.
AfterRun_CommitFirst == <<"commit", "log", "exit">>

\* What follows a successful wrappedRun: onDropIndex, wunit.commit(), scope exit.
AfterRun == <<"log", "commit", "exit">>

\* The step that follows step s in AfterRun.
Following(s) == AfterRun[(CHOOSE i \in 1..Len(AfterRun) : AfterRun[i] = s) + 1]

---------------------------------------------------------------------------
\* The two operation contexts are interchangeable, so their command objects are
\* taken up to swapping them.
Rank(i, r) == i + i + (IF r THEN 1 ELSE 0)

Init ==
    /\ nsState \in {"present", "noCollection", "noDb"}
    /\ \E S \in SUBSET SecondaryNames : \E T \in SUBSET (SecondaryNames \ S) :
          /\ catalog = IF nsState = "present" THEN CatalogOf(S) ELSE <<>>
          /\ inProg = IF nsState = "present" THEN BuildsOf(T) ELSE {}
    /\ catalog0 = catalog
    /\ oplog = <<>>
    /\ canAcceptWrites \in BOOLEAN
    /\ conflicts = 0
    /\ dbLock = [p \in Procs |-> "none"]
    /\ pc = [p \in Procs |-> "begin"]
    /\ \E i, j \in 1..Len(SelectorList) : \E r1, r2 \in BOOLEAN :
          /\ Rank(i, r1) <= Rank(j, r2)
          /\ sel = [p \in Procs |-> IF p = 1 THEN SelectorList[i] ELSE SelectorList[j]]
          /\ replicated = [p \in Procs |-> IF p = 1 THEN r1 ELSE r2]
    /\ attempts = [p \in Procs |-> 0]
    /\ retries = [p \in Procs |-> 0]
    /\ wunit = [p \in Procs |-> NoWunit]
    /\ desc = [p \in Procs |-> 0]
    /\ report = [p \in Procs |-> <<>>]
    /\ status = [p \in Procs |-> "running"]
    /\ did = [p \in Procs |-> <<>>]
    /\ atLock = [p \in Procs |-> NoSnapshot]
    /\ atEnd = [p \in Procs |-> [catalog |-> <<>>, inProg |-> {}, oplog |-> <<>>]]

\* ScopedTransaction transaction(txn, MODE_IX); AutoGetDb autoDb(txn, dbName,
\* MODE_X): blocks until the database lock can be granted.
AcquireLocks(p) ==
    /\ pc[p] = "begin"
    /\ Grantable(p, DbLockMode)
    /\ dbLock' = [dbLock EXCEPT ![p] = DbLockMode]
    /\ attempts' = [attempts EXCEPT ![p] = @ + 1]
    /\ did' = [did EXCEPT ![p] = <<"lock">>]
    /\ atLock' = [atLock EXCEPT ![p] =
                    [catalog |-> catalog, inProg |-> inProg, oplog |-> oplog,
                     canAccept |-> "unset", canAcceptWas |-> atLock[p].canAccept,
                     reportLen |-> Len(report[p])]]
    /\ desc' = [desc EXCEPT ![p] = 0]
    /\ pc' = [pc EXCEPT ![p] = "gate"]
    /\ UNCHANGED <<envVars, catalog, inProg, oplog, conflicts, sel, replicated,
                   retries, wunit, report, status, atEnd>>

\* userInitiatedWritesAndNotPrimary, then either the NotMaster return or
\* WriteUnitOfWork wunit(txn).
Gate(p) ==
    /\ pc[p] = "gate"
    /\ Step(p, "gate")
    /\ atLock' = [atLock EXCEPT ![p].canAccept = IF canAcceptWrites THEN "yes" ELSE "no"]
    /\ IF UserInitiatedWritesAndNotPrimary(p)
       THEN ReturnStatus(p, "NotPrimary")
       ELSE /\ wunit' = [wunit EXCEPT ![p] =
                           [state |-> WriteUnitOfWork, catalog |-> catalog,
                            oplog |-> oplog]]
            /\ pc' = [pc EXCEPT ![p] = "lookup"]
            /\ UNCHANGED <<catalog, oplog, dbLock, status, retries, conflicts, atEnd>>
    /\ UNCHANGED <<envVars, inProg, sel, replicated, attempts, desc, report>>

\* wrappedRun: db ? db->getCollection(toDeleteNs) : nullptr, and the short circuit.
LookupCollection(p) ==
    /\ pc[p] = "lookup"
    /\ Step(p, "lookup")
    /\ IF NamespaceMissing
       THEN ReturnStatus(p, "NamespaceNotFound")
       ELSE /\ pc' = [pc EXCEPT ![p] = "stop"]
            /\ UNCHANGED <<catalog, oplog, dbLock, wunit, status, retries, conflicts, atEnd>>
    /\ UNCHANGED <<envVars, inProg, sel, replicated, attempts, desc, report, atLock>>

\* wrappedRun: stopIndexBuilds(txn, db, toDeleteNs, jsobj); the result is dropped.
StopBuilds(p) ==
    /\ pc[p] = "stop"
    /\ Step(p, "stop")
    /\ inProg' = StopIndexBuilds(inProg, sel[p])
    /\ pc' = [pc EXCEPT ![p] = "count"]
    /\ UNCHANGED <<envVars, catalog, oplog, conflicts, dbLock, sel, replicated, attempts,
                   retries, wunit, desc, report, status, atLock, atEnd>>

\* wrappedRun: anObjBuilder->appendNumber("nIndexesWas", numIndexesTotal(txn)).
CountIndexes(p) ==
    /\ pc[p] = "count"
    /\ Step(p, "count")
    /\ report' = [report EXCEPT ![p] =
                    Append(@, [f |-> "nIndexesWas", v |-> NumIndexesTotal(catalog)])]
    /\ pc' = [pc EXCEPT ![p] = "resolve"]
    /\ UNCHANGED <<envVars, catalog, inProg, oplog, conflicts, dbLock, sel, replicated,
                   attempts, retries, wunit, desc, status, atLock, atEnd>>

\* wrappedRun: the element type decides the path; a name or a key pattern is
\* looked up and refused when absent or when it is the _id index.
Resolve(p) ==
    /\ pc[p] = "resolve"
    /\ Step(p, "resolve")
    /\ IF sel[p].type = "String"
       THEN IF sel[p].val = "*"
            THEN /\ pc' = [pc EXCEPT ![p] = "dropAll"]
                 /\ UNCHANGED <<desc, catalog, oplog, dbLock, wunit, status, retries,
                                conflicts, atEnd>>
            ELSE LET d == FindIndexByName(catalog, sel[p].val)
                 IN  /\ desc' = [desc EXCEPT ![p] = d]
                     /\ IF d = 0
                        THEN ReturnStatus(p, NameNotFound)
                        ELSE IF CannotDrop(catalog, d)
                        THEN ReturnStatus(p, "InvalidOptions")
                        ELSE /\ pc' = [pc EXCEPT ![p] = "dropOne"]
                             /\ UNCHANGED <<catalog, oplog, dbLock, wunit, status,
                                            retries, conflicts, atEnd>>
       ELSE IF sel[p].type = "Object"
       THEN LET d == FindIndexByKeyPattern(catalog, sel[p].val)
            IN  /\ desc' = [desc EXCEPT ![p] = d]
                /\ IF d = 0
                   THEN ReturnStatus(p, KeyNotFound)
                   ELSE IF CannotDrop(catalog, d)
                   THEN ReturnStatus(p, "InvalidOptions")
                   ELSE /\ pc' = [pc EXCEPT ![p] = "dropOne"]
                        /\ UNCHANGED <<catalog, oplog, dbLock, wunit, status,
                                       retries, conflicts, atEnd>>
       ELSE /\ ReturnStatus(p, "IndexNotFound")
            /\ UNCHANGED desc
    /\ UNCHANGED <<envVars, inProg, sel, replicated, attempts, report, atLock>>

\* wrappedRun, wildcard path: indexCatalog->dropAllIndexes(txn, false), then
\* either "return s", the "msg" field and OK, or a write conflict from storage.
DropAll(p) ==
    /\ pc[p] = "dropAll"
    /\ Step(p, "drop")
    /\ \/ /\ catalog' = DropAllIndexes(catalog, IncludingIdIndex)
          /\ report' = [report EXCEPT ![p] = Append(@, [f |-> "msg", v |-> DropMessage])]
          /\ pc' = [pc EXCEPT ![p] = AfterRun[1]]
          /\ UNCHANGED <<oplog, dbLock, wunit, status, retries, conflicts, atEnd>>
       \/ /\ ReturnStatus(p, "InternalError")
          /\ UNCHANGED report
       \/ /\ ThrowWriteConflict(p)
          /\ UNCHANGED report
    /\ UNCHANGED <<envVars, inProg, sel, replicated, attempts, desc, atLock>>

\* wrappedRun, name and key-pattern paths: indexCatalog->dropIndex(txn, desc).
DropOne(p) ==
    /\ pc[p] = "dropOne"
    /\ Step(p, "drop")
    /\ \/ /\ catalog' = DropIndex(catalog, DropTarget(p))
          /\ pc' = [pc EXCEPT ![p] = AfterRun[1]]
          /\ UNCHANGED <<oplog, dbLock, wunit, status, retries, conflicts, atEnd>>
       \/ ReturnStatus(p, "InternalError")
       \/ ThrowWriteConflict(p)
    /\ UNCHANGED <<envVars, inProg, sel, replicated, attempts, desc, report, atLock>>

\* dropIndexes: getOpObserver()->onDropIndex(txn, dbName + ".$cmd", idxDescriptor).
\* The append is a write of the unit of work; it can conflict, and it can fail.
LogDrop(p) ==
    /\ pc[p] = "log"
    /\ Step(p, "log")
    /\ \/ /\ oplog' = Append(oplog, [ns |-> "db.$cmd", o |-> sel[p]])
          /\ pc' = [pc EXCEPT ![p] = Following("log")]
          /\ UNCHANGED <<catalog, dbLock, wunit, status, retries, conflicts, atEnd>>
       \/ ThrowException(p, "DurabilityFailure")
       \/ ThrowWriteConflict(p)
    /\ UNCHANGED <<envVars, inProg, sel, replicated, attempts, desc, report, atLock>>

\* dropIndexes: wunit.commit().
Commit(p) ==
    /\ pc[p] = "commit"
    /\ Step(p, "commit")
    /\ wunit' = [wunit EXCEPT ![p].state = "committed"]
    /\ pc' = [pc EXCEPT ![p] = Following("commit")]
    /\ UNCHANGED <<envVars, catalog, inProg, oplog, conflicts, dbLock, sel, replicated,
                   attempts, retries, desc, report, status, atLock, atEnd>>

\* The end of the loop body: the iteration's scope exits and the loop is left.
LoopEnd(p) ==
    /\ pc[p] = "exit"
    /\ Unwind(p)
    /\ pc' = [pc EXCEPT ![p] = "ret"]
    /\ UNCHANGED <<envVars, inProg, conflicts, sel, replicated, attempts, retries,
                   desc, report, status, did, atLock>>

\* dropIndexes: return Status::OK() after the loop.
ReturnOK(p) ==
    /\ pc[p] = "ret"
    /\ status' = [status EXCEPT ![p] = "OK"]
    /\ pc' = [pc EXCEPT ![p] = "done"]
    /\ UNCHANGED <<envVars, catalog, inProg, oplog, conflicts, dbLock, sel, replicated,
                   attempts, retries, wunit, desc, report, did, atLock, atEnd>>

\* The replica set changes the node's role.  A role change takes the global
\* lock exclusively, so it waits for the operations that hold it.
RoleChange ==
    /\ \A p \in Procs : dbLock[p] = "none"
    /\ \E p \in Procs : pc[p] # "done"
    /\ canAcceptWrites' = ~canAcceptWrites
    /\ UNCHANGED <<nsState, catalog0, catalog, inProg, oplog, conflicts, dbLock, pc, sel,
                   replicated, attempts, retries, wunit, desc, report, status, did,
                   atLock, atEnd>>

Next ==
    \/ \E p \in Procs : AcquireLocks(p)
    \/ \E p \in Procs : Gate(p)
    \/ \E p \in Procs : LookupCollection(p)
    \/ \E p \in Procs : StopBuilds(p)
    \/ \E p \in Procs : CountIndexes(p)
    \/ \E p \in Procs : Resolve(p)
    \/ \E p \in Procs : DropAll(p)
    \/ \E p \in Procs : DropOne(p)
    \/ \E p \in Procs : LogDrop(p)
    \/ \E p \in Procs : Commit(p)
    \/ \E p \in Procs : LoopEnd(p)
    \/ \E p \in Procs : ReturnOK(p)
    \/ RoleChange

Spec == Init /\ [][Next]_vars

\* The steps of one invocation: the thread running dropIndexes for caller p.
Proceed(p) ==
    \/ AcquireLocks(p)
    \/ Gate(p)
    \/ LookupCollection(p)
    \/ StopBuilds(p)
    \/ CountIndexes(p)
    \/ Resolve(p)
    \/ DropAll(p)
    \/ DropOne(p)
    \/ LogDrop(p)
    \/ Commit(p)
    \/ LoopEnd(p)
    \/ ReturnOK(p)

\* Each calling thread keeps running, and a lock request that stays grantable
\* is granted; write conflicts are finitely many (MaxConflicts); the role of the
\* node changes at the environment's will, with no fairness.
FairSpec == Spec /\ \A p \in Procs : WF_vars(Proceed(p))

---------------------------------------------------------------------------
\* Vocabulary of the properties.

Returned(p, s) == pc[p] = "done" /\ status[p] = s

InSeq(seq, x) == \E i \in 1..Len(seq) : seq[i] = x

\* The fields the current (or last) attempt appended to the report.
AttemptReport(p) == SubSeq(report[p], atLock[p].reportLen + 1, Len(report[p]))

NoName(cat, n) == \A i \in 1..Len(cat) : cat[i].name # n

NoKey(cat, k) == \A i \in 1..Len(cat) : cat[i].key # k

IsNameSelector(s) == s.type = "String" /\ s.val # "*"

IsKeySelector(s) == s.type = "Object"

\* wrappedRun past the collection lookup as a function of the catalog alone: the
\* status it returns and the catalog it leaves when nothing else runs and no
\* catalog call fails.
RunAlone(cat, s) ==
    IF s.type = "String"
    THEN IF s.val = "*"
         THEN [status |-> "OK", catalog |-> DropAllIndexes(cat, IncludingIdIndex)]
         ELSE LET d == FindIndexByName(cat, s.val)
              IN  IF d = 0 THEN [status |-> NameNotFound, catalog |-> cat]
                  ELSE IF CannotDrop(cat, d) THEN [status |-> "InvalidOptions", catalog |-> cat]
                  ELSE [status |-> "OK", catalog |-> DropIndex(cat, d)]
    ELSE IF s.type = "Object"
    THEN LET d == FindIndexByKeyPattern(cat, s.val)
         IN  IF d = 0 THEN [status |-> KeyNotFound, catalog |-> cat]
             ELSE IF CannotDrop(cat, d) THEN [status |-> "InvalidOptions", catalog |-> cat]
             ELSE [status |-> "OK", catalog |-> DropIndex(cat, d)]
    ELSE [status |-> "IndexNotFound", catalog |-> cat]

\* The catalogs invocation p can leave when it runs alone on cat and returns what
\* it did return: a failure applies nothing, a success applies RunAlone.
SerialOutcomes(cat, p) ==
    LET r == RunAlone(cat, sel[p])
    IN  IF status[p] \in {"OK", "IndexNotFound", "InvalidOptions"}
        THEN IF nsState = "present" /\ r.status = status[p] THEN {r.catalog} ELSE {}
        ELSE {cat}

---------------------------------------------------------------------------
C2_IdIndexRefused ==
    \A p \in Procs :
        (desc[p] # 0 /\ atLock[p].catalog[desc[p]].isIdIndex) =>
            /\ Returned(p, "InvalidOptions")
            /\ atEnd[p].catalog = atLock[p].catalog

\* The _id index was targeted once by name and once by key pattern.
C2_Witness ==
    \E p, q \in Procs :
        /\ sel[p] = [type |-> "String", val |-> "_id_"] /\ desc[p] = 1
        /\ Returned(p, "InvalidOptions")
        /\ sel[q] = [type |-> "Object", val |-> "_id"] /\ desc[q] = 1
        /\ Returned(q, "InvalidOptions")

\* C3 as stated: whatever the node's state, a missing collection or database
\* makes dropIndexes return NamespaceNotFound and leaves the catalog unchanged.
C3_AlwaysNamespaceNotFound ==
    \A p \in Procs :
        (nsState # "present" /\ pc[p] = "done") =>
            /\ status[p] = "NamespaceNotFound"
            /\ atEnd[p].catalog = atLock[p].catalog

\* C3, amended: with the collection or database missing, dropIndexes returns
\* NamespaceNotFound when the attempt passes the replication gate and NotPrimary
\* when the gate rejects it (writes replicated, node cannot accept writes); the
\* catalog is unchanged either way.
C3_NamespaceNotFoundPastGate ==
    \A p \in Procs :
        (nsState # "present" /\ pc[p] = "done") =>
            /\ status[p] = IF replicated[p] /\ atLock[p].canAccept = "no"
                           THEN "NotPrimary" ELSE "NamespaceNotFound"
            /\ atEnd[p].catalog = atLock[p].catalog
            /\ catalog = catalog0

\* Two invocations on a missing collection returned NamespaceNotFound, one with
\* a key pattern on a node that accepts writes, the other with the wildcard.
C3_Witness ==
    \E p, q \in Procs :
        /\ nsState = "noCollection"
        /\ Returned(p, "NamespaceNotFound") /\ sel[p].type = "Object"
        /\ atLock[p].canAccept = "yes"
        /\ Returned(q, "NamespaceNotFound") /\ sel[q] = Wildcard

\* C4 as stated: whenever the node cannot accept writes for the database,
\* dropIndexes returns NotPrimary having done nothing but lock and gate.
C4_NotPrimaryWheneverNotWritable ==
    \A p \in Procs :
        atLock[p].canAccept = "no" =>
            /\ Returned(p, "NotPrimary")
            /\ did[p] = <<"lock", "gate">>

\* C4, amended: when the operation's writes are replicated and the node cannot
\* accept writes at the gate, dropIndexes returns NotPrimary for every selector,
\* the attempt has done nothing but take the locks and evaluate the gate, and
\* catalog, builds and log are untouched.
C4_NotPrimaryBeforeCatalogAccess ==
    \A p \in Procs :
        (replicated[p] /\ atLock[p].canAccept = "no") =>
            /\ Returned(p, "NotPrimary")
            /\ did[p] = <<"lock", "gate">>
            /\ atEnd[p].catalog = atLock[p].catalog
            /\ atEnd[p].inProg = atLock[p].inProg
            /\ atEnd[p].oplog = atLock[p].oplog

\* A replicated wildcard drop was rejected by the gate while builds were running.
C4_Witness ==
    \E p \in Procs :
        /\ replicated[p] /\ atLock[p].canAccept = "no"
        /\ sel[p] = Wildcard /\ atLock[p].inProg # {}
        /\ Len(atLock[p].catalog) = 2
        /\ Returned(p, "NotPrimary")

\* C5: on an existing collection a name that matches no descriptor gives
\* IndexNotFound, a key pattern that matches none gives InvalidOptions, and the
\* catalog is unchanged in both cases.
C5_NotFoundCodes ==
    \A p \in Procs :
        InSeq(did[p], "resolve") =>
            /\ (IsNameSelector(sel[p]) /\ NoName(atLock[p].catalog, sel[p].val)) =>
                   /\ Returned(p, "IndexNotFound")
                   /\ atEnd[p].catalog = atLock[p].catalog
            /\ (IsKeySelector(sel[p]) /\ NoKey(atLock[p].catalog, sel[p].val)) =>
                   /\ Returned(p, "InvalidOptions")
                   /\ atEnd[p].catalog = atLock[p].catalog

\* A name and a key pattern were both looked up in a catalog that has neither.
C5_Witness ==
    \E p, q \in Procs :
        /\ IsNameSelector(sel[p]) /\ NoName(atLock[p].catalog, sel[p].val)
        /\ Returned(p, "IndexNotFound") /\ atLock[p].catalog = <<IdIndex>>
        /\ IsKeySelector(sel[q]) /\ NoKey(atLock[q].catalog, sel[q].val)
        /\ Returned(q, "InvalidOptions")

\* C6: once two concurrent invocations have both returned, the catalog is what
\* running them one after the other, in one of the two orders, leaves, each
\* returning what it did return; retries after write conflicts included.
C6_Serializable ==
    (\A p \in Procs : pc[p] = "done") =>
        \E p, q \in Procs :
            /\ p # q
            /\ \E c \in SerialOutcomes(catalog0, p) : catalog \in SerialOutcomes(c, q)

\* Both invocations removed an index, one of them after a write conflict, and
\* what the second removed depended on the first.
C6_Witness ==
    \E p, q \in Procs :
        /\ p # q
        /\ Returned(p, "OK") /\ IsNameSelector(sel[p]) /\ retries[p] = 1
        /\ Returned(q, "OK") /\ IsKeySelector(sel[q])
        /\ Len(catalog0) = 3 /\ catalog = <<IdIndex>>

\* C7: WriteConflict is never returned; every attempt after the first follows a
\* caught write conflict, and nothing else starts one; any other failure is
\* returned by the attempt in which it occurs, at the step where it occurs.
C7_OnlyConflictsRetry ==
    \A p \in Procs :
        /\ status[p] # "WriteConflict"
        /\ attempts[p] = retries[p] + (IF pc[p] = "begin" THEN 0 ELSE 1)
        /\ (status[p] # "running") <=> (pc[p] = "done")
        /\ status[p] = "NotPrimary" => did[p] = <<"lock", "gate">>
        /\ status[p] = "NamespaceNotFound" => did[p] = <<"lock", "gate", "lookup">>
        /\ status[p] \in {"IndexNotFound", "InvalidOptions"} =>
               did[p] = <<"lock", "gate", "lookup", "stop", "count", "resolve">>
        /\ status[p] = "InternalError" =>
               did[p] = <<"lock", "gate", "lookup", "stop", "count", "resolve", "drop">>

\* An invocation hit a write conflict, went round again and returned a failure.
C7_Witness ==
    \E p \in Procs :
        /\ retries[p] = 1 /\ attempts[p] = 2
        /\ Returned(p, "IndexNotFound")

\* C8: when the log append fails after the removal, the attempt is not
\* committed, catalog and log are what they were when it took the lock, and
\* dropIndexes does not return OK.
C8_LogFailureRollsBack ==
    \A p \in Procs :
        (InSeq(did[p], "log") /\ pc[p] = "done" /\ status[p] # "OK") =>
            /\ status[p] = "DurabilityFailure"
            /\ InSeq(did[p], "drop")
            /\ ~InSeq(did[p], "commit")
            /\ atEnd[p].catalog = atLock[p].catalog
            /\ atEnd[p].oplog = atLock[p].oplog

\* The log append failed after a wildcard drop had emptied a catalog of three.
C8_Witness ==
    \E p \in Procs :
        /\ Returned(p, "DurabilityFailure")
        /\ sel[p] = Wildcard /\ Len(atLock[p].catalog) = 3
        /\ catalog = atLock[p].catalog

\* C9: an invocation that returns NamespaceNotFound, NotPrimary, IndexNotFound
\* or InvalidOptions leaves the catalog, the index builds in progress and the
\* log as its attempt found them.
C9_NoPartialEffects ==
    \A p \in Procs :
        (pc[p] = "done" /\ status[p] \in {"NamespaceNotFound", "NotPrimary",
                                           "IndexNotFound", "InvalidOptions"}) =>
            /\ atEnd[p].catalog = atLock[p].catalog
            /\ atEnd[p].inProg = atLock[p].inProg
            /\ atEnd[p].oplog = atLock[p].oplog

C11_InvalidSelectorIsError ==
    \A p \in Procs :
        (sel[p].type \notin {"String", "Object"}) =>
            /\ status[p] # "OK"
            /\ (dbLock[p] # "none" /\ InSeq(did[p], "stop")) =>
                   inProg = atLock[p].inProg
            /\ InSeq(did[p], "resolve") =>
                   /\ Returned(p, "IndexNotFound")
                   /\ atEnd[p].catalog = atLock[p].catalog
                   /\ atEnd[p].inProg = atLock[p].inProg
                   /\ atEnd[p].oplog = atLock[p].oplog

\* An absent selector and a numeric one were both refused while builds were
\* running on a catalog of two indexes.
C11_Witness ==
    \E p, q \in Procs :
        /\ sel[p].type = "EOO" /\ Returned(p, "IndexNotFound")
        /\ sel[q].type = "NumberInt" /\ Returned(q, "IndexNotFound")
        /\ atLock[p].inProg # {} /\ atLock[q].inProg # {}
        /\ Len(atLock[p].catalog) = 2

\* C12: at every moment, whatever the invocations, retries and failures, the
\* catalog of an existing collection holds exactly one _id descriptor.
C12_OneIdIndex ==
    nsState = "present" =>
        Cardinality({i \in 1..Len(catalog) : catalog[i].isIdIndex}) = 1

\* A wildcard drop and a drop by name both committed and the _id index is all
\* that is left.
C12_Witness ==
    \E p, q \in Procs :
        /\ Returned(p, "OK") /\ sel[p] = Wildcard /\ Len(atLock[p].catalog) = 2
        /\ Returned(q, "OK") /\ IsNameSelector(sel[q]) /\ Len(atLock[q].catalog) = 3
        /\ catalog = <<IdIndex>>

\* C13: the cancellation of in-flight builds is never executed while the
\* attempt holds the exclusive database lock: no attempt stands at the
\* cancellation step, or has just performed it, with the lock in mode X.
C13_CancelOutsideExclusiveLock ==
    \A p \in Procs :
        (pc[p] = "stop" \/ (pc[p] = "count" /\ InSeq(did[p], "stop"))) =>
            dbLock[p] # "X"

\* C14 as stated: when the node stops accepting writes between an attempt
\* discarded by a write conflict and its retry, the retry returns NotPrimary
\* after the lock and the gate only, and changes nothing.
C14_RetryAlwaysNotPrimary ==
    \A p \in Procs :
        (/\ retries[p] >= 1
         /\ atLock[p].canAcceptWas = "yes"
         /\ atLock[p].canAccept = "no") =>
            /\ Returned(p, "NotPrimary")
            /\ did[p] = <<"lock", "gate">>
            /\ atEnd[p] = [catalog |-> atLock[p].catalog,
                           inProg |-> atLock[p].inProg,
                           oplog |-> atLock[p].oplog]

\* C14: the gate is evaluated afresh in every attempt, with the lock held: when
\* the node stops accepting writes between an attempt discarded by a write
\* conflict and its retry, the retry of an operation whose writes are
\* replicated returns NotPrimary after the lock and the gate only, and changes
\* nothing, although the earlier attempt passed the gate.
C14_GateEvaluatedEveryAttempt ==
    \A p \in Procs :
        (/\ replicated[p]
         /\ retries[p] >= 1
         /\ atLock[p].canAcceptWas = "yes"
         /\ atLock[p].canAccept = "no") =>
            /\ Returned(p, "NotPrimary")
            /\ did[p] = <<"lock", "gate">>
            /\ atEnd[p] = [catalog |-> atLock[p].catalog,
                           inProg |-> atLock[p].inProg,
                           oplog |-> atLock[p].oplog]

\* A replicated wildcard drop on three indexes was discarded by a write
\* conflict, the node stepped down, and the retry returned NotPrimary with the
\* three indexes in place.
C14_Witness ==
    \E p \in Procs :
        /\ replicated[p] /\ sel[p] = Wildcard
        /\ retries[p] = 1 /\ attempts[p] = 2
        /\ atLock[p].canAcceptWas = "yes" /\ atLock[p].canAccept = "no"
        /\ Returned(p, "NotPrimary")
        /\ Len(atLock[p].catalog) = 3 /\ catalog = atLock[p].catalog

\* The steps of an attempt that runs to its commit, in the order of the code.
FullAttempt ==
    <<"lock", "gate", "lookup", "stop", "count", "resolve", "drop", "log", "commit">>

\* C15: the steps of an attempt follow the order removal, log append, commit,
\* so the log append comes only after the removal of that attempt returned and
\* before the commit; the log is untouched until then; an attempt that fails at
\* the gate or in the executor appends nothing; OK is returned only after the
\* commit of an attempt that removed and logged.
C15_LogAfterDropBeforeCommit ==
    \A p \in Procs :
        /\ Len(did[p]) <= Len(FullAttempt)
        /\ did[p] = SubSeq(FullAttempt, 1, Len(did[p]))
        /\ (dbLock[p] # "none" /\ ~InSeq(did[p], "log")) =>
               oplog = atLock[p].oplog
        /\ (dbLock[p] # "none" /\ InSeq(did[p], "log")) =>
               Len(oplog) = Len(atLock[p].oplog) + 1
        /\ status[p] = "OK" =>
               /\ did[p] = FullAttempt
               /\ Len(atEnd[p].oplog) = Len(atLock[p].oplog) + 1
        /\ (pc[p] = "done" /\ status[p] \notin {"OK", "DurabilityFailure"}) =>
               /\ ~InSeq(did[p], "log")
               /\ atEnd[p].oplog = atLock[p].oplog

\* One invocation committed after removing and logging, the other failed in
\* the executor and left the log as it found it, one entry long.
C15_Witness ==
    \E p, q \in Procs :
        /\ Returned(p, "OK") /\ did[p][Len(did[p])] = "commit"
        /\ Returned(q, "InvalidOptions") /\ InSeq(did[q], "resolve")
        /\ Len(atLock[q].oplog) = 1 /\ oplog = atLock[q].oplog

\* C16: an attempt that ended in a write conflict is discarded before the next
\* one starts: between the two the catalog and the log are as the attempt
\* found them, no unit of work is open and the lock is released; the retry
\* reads the catalog afresh, reporting the size it found under its own lock.
C16_ConflictDiscardsAttempt ==
    \A p \in Procs :
        /\ (pc[p] = "begin" /\ retries[p] >= 1) =>
               /\ atEnd[p].catalog = atLock[p].catalog
               /\ atEnd[p].oplog = atLock[p].oplog
               /\ wunit[p] = NoWunit
               /\ dbLock[p] = "none"
        /\ (retries[p] >= 1 /\ InSeq(did[p], "count")) =>
               GetField(AttemptReport(p), "nIndexesWas") = {Len(atLock[p].catalog)}
        /\ (retries[p] >= 1 /\ pc[p] \in {"stop", "count", "resolve"}) =>
               /\ catalog = atLock[p].catalog
               /\ desc[p] = 0

\* A wildcard drop on three indexes removed two, logged, hit a write conflict at
\* the log append and stands before its retry with the three indexes back and
\* the log empty.
C16_Witness ==
    \E p \in Procs :
        /\ pc[p] = "begin" /\ retries[p] = 1
        /\ sel[p] = Wildcard /\ InSeq(did[p], "log")
        /\ Len(catalog) = 3 /\ catalog = atLock[p].catalog
        /\ oplog = <<>>

\* The positions of the loop body between the acquisition of the database lock
\* and its release.
InAttempt ==
    {"gate", "lookup", "stop", "count", "resolve", "dropAll", "dropOne",
     "log", "commit", "exit"}

\* C17: at most one attempt on the namespace stands between lock acquisition
\* and lock release, and it holds the lock in mode X; the lock is held nowhere
\* else: not before an attempt, not between a discarded attempt and its retry,
\* not after a return with success or with a failure.
C17_MutualExclusion ==
    /\ Cardinality({p \in Procs : pc[p] \in InAttempt}) <= 1
    /\ \A p \in Procs :
           /\ pc[p] \in InAttempt => dbLock[p] = "X"
           /\ pc[p] \notin InAttempt => dbLock[p] = "none"
           /\ dbLock[p] # "none" => wunit[p].state # "none" \/ pc[p] = "gate"

\* One invocation returned a failure, and the other, after a discarded attempt,
\* holds the lock in the middle of its retry.
C17_Witness ==
    \E p, q \in Procs :
        /\ pc[p] = "done" /\ status[p] \notin {"OK", "running"}
        /\ retries[q] = 1 /\ pc[q] = "dropOne" /\ dbLock[q] = "X"

\* C18: an attempt fails with NotPrimary exactly when the operation's writes
\* are replicated and the node cannot accept writes at the gate; an operation
\* whose writes are not replicated goes on to the executor whatever the role.
C18_GateTruthTable ==
    \A p \in Procs :
        atLock[p].canAccept # "unset" =>
            /\ status[p] = "NotPrimary" <=>
                   (replicated[p] /\ atLock[p].canAccept = "no")
            /\ ~(replicated[p] /\ atLock[p].canAccept = "no") =>
                   \/ InSeq(did[p], "lookup")
                   \/ pc[p] = "lookup"

\* An operation whose writes are not replicated dropped an index on a node that
\* could not accept writes.
C18_Witness ==
    \E p \in Procs :
        /\ ~replicated[p] /\ atLock[p].canAccept = "no"
        /\ Returned(p, "OK") /\ IsNameSelector(sel[p])
        /\ Len(atLock[p].catalog) = 3 /\ Len(atEnd[p].catalog) = 2

\* C20: the report of a successful invocation carries the prior index count
\* exactly once, and that count is the catalog size at the start of the
\* attempt that committed, however many attempts were discarded before it.
C20_PriorCountOnce ==
    \A p \in Procs :
        Returned(p, "OK") =>
            /\ Cardinality({i \in 1..Len(report[p]) :
                                report[p][i].f = "nIndexesWas"}) = 1
            /\ \A i \in 1..Len(report[p]) :
                   report[p][i].f = "nIndexesWas" =>
                       report[p][i].v = Len(atLock[p].catalog)

\* C19: with fair scheduling of the callers, finitely many write conflicts and
\* lock requests that are answered, every invocation eventually returns, with
\* OK or with a failure that is not a write conflict, and stays returned.
C19_EventuallyReturns ==
    \A p \in Procs : <>[](pc[p] = "done" /\ status[p] # "running")

\* An invocation returned OK after as many discarded attempts as write
\* conflicts can occur, while the other had returned too.
C19_Witness ==
    \E p, q \in Procs :
        /\ p # q
        /\ Returned(p, "OK") /\ retries[p] >= 1 /\ attempts[p] = retries[p] + 1
        /\ pc[q] = "done"

====
